---- MODULE Spec2Model ----
(***************************************************************************)
(* Model of basketball-analysis-streamlit: player_stats.py (table locator, *)
(* row normaliser, shooting-split parser, metrics engine, name lookup) and *)
(* app.py (the "Analyze player" handler).                                  *)
(*                                                                         *)
(* Text is modelled as sequences of one-character strings, so that         *)
(* strip(), lower(), split() and the numeric parsers are computed and not  *)
(* assumed.  Python's None is the empty tuple <<>> and a present value v   *)
(* is <<v>>.                                                               *)
(***************************************************************************)
EXTENDS Integers, Sequences, FiniteSets, TLC

VARIABLES
    soup,       \* locator: the parsed document, a sequence of elements
    locPc,      \* locator: "start" | "located" | "raised"
    table,      \* locator: <<>> (None) or <<i>>, the index in soup of the table
    trs,        \* normaliser: the <tr> rows of the located table, as cell texts
    rowPc,      \* normaliser: "start" | "framed" | "raised"
    header,     \* normaliser: the DataFrame's column names
    data_rows,  \* normaliser: the DataFrame's rows
    series,     \* shooting parser: a column of cells, each None or a text
    parsePc,    \* shooting parser: "start" | "done" | "raised"
    made,       \* shooting parser: the made column
    att,        \* shooting parser: the attempts column
    columns,    \* pipeline: the names of the frame's columns
    df,         \* pipeline: the frame's rows, each a function of column name
    pipePc,     \* pipeline: "raw" | "parsed" | "metrics" | "overall" | "done" | "raised"
    overall,    \* pipeline: summarize_overall's dictionary
    splits,     \* pipeline: summarize_splits' dictionary
    lookName,   \* lookup: the name argument
    lookPc,     \* lookup: "start" | "returned" | "raised"
    posted,     \* lookup: the txtSearch values sent to the search endpoint
    response,   \* lookup: what urlopen did
    found,      \* lookup: the value returned, None or <<url>>
    input_mode, \* app: "Player URL" | "Player name"
    url,        \* app: the URL text input
    player_name,\* app: the name text input
    appPc,      \* app: the handler's position
    final_url,  \* app: None or <<url>>
    page,       \* app: what the fetched page is like
    shown,      \* app: what has been displayed, in order
    errors,     \* app: the number of st.error messages displayed
    lookups,    \* app: the number of name-lookup requests issued
    fetches     \* app: the number of page fetches issued

locVars == <<soup, locPc, table>>

rowVars == <<trs, rowPc, header, data_rows>>

parseVars == <<series, parsePc, made, att>>

pipeVars == <<columns, df, pipePc, overall, splits>>

lookVars == <<lookName, lookPc, posted, response, found>>

appVars ==
    <<input_mode, url, player_name, appPc, final_url, page, shown, errors, lookups, fetches>>

vars ==
    <<soup, locPc, table, trs, rowPc, header, data_rows, series, parsePc, made, att,
      columns, df, pipePc, overall, splits, lookName, lookPc, posted, response, found,
      input_mode, url, player_name, appPc, final_url, page, shown, errors, lookups, fetches>>

None == <<>>

Some(v) == <<v>>

(***************************************************************************)
(* Bounds                                                                  *)
(***************************************************************************)
MaxElems == 4

MaxRows == 5

MaxCells == 2

MaxGames == 2

MaxName == 3

MaxUrl == 3

MaxText == 2

(***************************************************************************)
(* Text helpers                                                            *)
(***************************************************************************)
Digits == {"0", "1", "2", "3", "4", "5", "6", "7", "8", "9"}

DigitVal(c) ==
    CASE c = "0" -> 0 [] c = "1" -> 1 [] c = "2" -> 2 [] c = "3" -> 3
      [] c = "4" -> 4 [] c = "5" -> 5 [] c = "6" -> 6 [] c = "7" -> 7
      [] c = "8" -> 8 [] c = "9" -> 9

\* int() of a non-empty run of decimal digits
RECURSIVE DecVal(_)
DecVal(s) ==
    IF s = <<>> THEN 0
    ELSE 10 * DecVal(SubSeq(s, 1, Len(s) - 1)) + DigitVal(s[Len(s)])

IsSpace(c) == c = " "

\* str.strip(): leading and trailing whitespace removed
RECURSIVE LStrip(_)
LStrip(s) ==
    IF s # <<>> /\ IsSpace(Head(s)) THEN LStrip(Tail(s)) ELSE s

RECURSIVE RStrip(_)
RStrip(s) ==
    IF s # <<>> /\ IsSpace(s[Len(s)]) THEN RStrip(SubSeq(s, 1, Len(s) - 1)) ELSE s

Strip(s) == RStrip(LStrip(s))

LowerChar(c) ==
    CASE c = "A" -> "a" [] c = "D" -> "d" [] c = "E" -> "e" [] c = "L" -> "l"
      [] c = "R" -> "r" [] c = "S" -> "s" [] c = "T" -> "t" [] c = "U" -> "u"
      [] OTHER -> c

\* str.lower()
Lower(s) == [i \in 1..Len(s) |-> LowerChar(s[i])]

(***************************************************************************)
(* Documents: the elements of a page in document order.  An h4 carries     *)
(* whether its class is plstats-head and its text; a table carries whether *)
(* its class is my_Title and the cells of its my_Headers rows.             *)
(***************************************************************************)
tDate == <<"D", "a", "t", "e">>

tDatePadded == <<" ", "D", "A", "T", "E", " ">>

tTeam == <<"T", "e", "a", "m">>

tAgainst == <<"A", "g", "a", "i", "n", "s", "t", " ", "T", "e", "a", "m">>

tResult == <<"R", "e", "s", "u", "l", "t">>

tResultUpper == <<"R", "E", "S", "U", "L", "T">>

kDate == <<"d", "a", "t", "e">>

kAgainst == <<"a", "g", "a", "i", "n", "s", "t", " ", "t", "e", "a", "m">>

kResult == <<"r", "e", "s", "u", "l", "t">>

HeaderRowSets ==
    { <<>>,                                               \* no my_Headers row
      << <<tDate, tTeam, tAgainst, tResult>> >>,            \* a game log
      << <<tTeam>>, <<tDatePadded, tAgainst, tResultUpper>> >>,
      << <<tDate, tTeam, tAgainst>> >>,                     \* no result column
      << <<tDate, tTeam>>, <<tAgainst, tResult>> >> }       \* split over two rows

H4Texts ==
    { <<"2", "0", "2", "3">>,
      <<"S", " ", "2", "0", "2", "4", "-", "2", "0", "2", "5">>,
      <<"0", "0", "0", "0">>,
      <<"2", "0", "2", " ", "x">> }

Elements ==
    [tag : {"h4"}, cls : {TRUE}, text : H4Texts]
      \cup { [tag |-> "h4", cls |-> FALSE, text |-> <<"2", "0", "2", "6">>] }
      \cup [tag : {"table"}, cls : {TRUE}, headers : HeaderRowSets]
      \cup { [tag |-> "table", cls |-> FALSE,
              headers |-> << <<tDate, tTeam, tAgainst, tResult>> >>] }

(***************************************************************************)
(* Table locator                                                           *)
(***************************************************************************)
\* table.find_all("tr", class_="my_Headers"), each row as its cell texts
\* after get_text(strip=True).lower()
HeaderCells(hr) == { Lower(Strip(hr[i])) : i \in 1..Len(hr) }

\* the three columns looked for over all header rows together
_is_game_log_table_any_row(tbl) ==
    /\ tbl.headers # <<>>
    /\ LET all == UNION { HeaderCells(tbl.headers[i]) : i \in 1..Len(tbl.headers) }
       IN  kDate \in all /\ kAgainst \in all /\ kResult \in all

_is_game_log_table(tbl) ==
    /\ tbl.headers # <<>>
    /\ \E i \in 1..Len(tbl.headers) :
          LET headers == HeaderCells(tbl.headers[i])
          IN  kDate \in headers /\ kAgainst \in headers /\ kResult \in headers

\* re.search(r"(\d{4})", text): the first four consecutive digits, as an int
YearOfText(text) ==
    LET starts == { i \in 1..(Len(text) - 3) :
                      \A j \in i..(i + 3) : text[j] \in Digits }
    IN  IF starts = {} THEN None
        ELSE LET i == CHOOSE k \in starts : \A l \in starts : k <= l
             IN  Some(DecVal(SubSeq(text, i, i + 3)))

\* table.find_previous("h4", class_="plstats-head") and the year in its text
YearBefore(doc, i) ==
    LET prev == { j \in 1..(i - 1) : doc[j].tag = "h4" /\ doc[j].cls }
    IN  IF prev = {} THEN None
        ELSE LET j == CHOOSE k \in prev : \A l \in prev : l <= k
             IN  YearOfText(doc[j].text)

\* soup.find_all("table", class_="my_Title") filtered by _is_game_log_table,
\* each with its year: the list `candidates`, in document order
RECURSIVE CandidatesFrom(_, _)
CandidatesFrom(doc, i) ==
    IF i > Len(doc) THEN <<>>
    ELSE IF doc[i].tag = "table" /\ doc[i].cls /\ _is_game_log_table(doc[i])
         THEN <<[year |-> YearBefore(doc, i), tbl |-> i]>> \o CandidatesFrom(doc, i + 1)
         ELSE CandidatesFrom(doc, i + 1)

Candidates(doc) == CandidatesFrom(doc, 1)

\* _key: (y is not None, y or 0)
Key(c) == <<c.year # None, IF c.year = None THEN 0 ELSE c.year[1]>>

\* tuple comparison: False < True, then the integers
KeyLess(a, b) ==
    \/ ~a[1] /\ b[1]
    \/ a[1] = b[1] /\ a[2] < b[2]

\* an unstable descending insertion: of equal keys the later one comes first
RECURSIVE InsertDescLast(_, _)
InsertDescLast(sorted, c) ==
    IF sorted = <<>> THEN <<c>>
    ELSE IF KeyLess(Key(c), Key(Head(sorted)))
         THEN <<Head(sorted)>> \o InsertDescLast(Tail(sorted), c)
         ELSE <<c>> \o sorted

\* list.sort(key=_key, reverse=True): stable, equal keys keep their order
RECURSIVE InsertDesc(_, _)
InsertDesc(sorted, c) ==
    IF sorted = <<>> THEN <<c>>
    ELSE IF KeyLess(Key(Head(sorted)), Key(c))
         THEN <<c>> \o sorted
         ELSE <<Head(sorted)>> \o InsertDesc(Tail(sorted), c)

RECURSIVE SortDesc(_)
SortDesc(cs) ==
    IF cs = <<>> THEN <<>>
    ELSE InsertDesc(SortDesc(SubSeq(cs, 1, Len(cs) - 1)), cs[Len(cs)])

_find_latest_season_game_log_table(doc) ==
    LET candidates == Candidates(doc)
    IN  IF candidates = <<>> THEN None
        ELSE Some(SortDesc(candidates)[1].tbl)

LocIdle ==
    /\ soup = <<>>
    /\ locPc = "idle"
    /\ table = None

RowIdle ==
    /\ trs = <<>>
    /\ rowPc = "idle"
    /\ header = <<>>
    /\ data_rows = <<>>

ParseIdle ==
    /\ series = <<>>
    /\ parsePc = "idle"
    /\ made = <<>>
    /\ att = <<>>

PipeIdle ==
    /\ columns = {}
    /\ df = <<>>
    /\ pipePc = "idle"
    /\ overall = <<>>
    /\ splits = <<>>

LookIdle ==
    /\ lookName = <<>>
    /\ lookPc = "idle"
    /\ posted = <<>>
    /\ response = [kind |-> "none", exc |-> "none", url |-> <<>>]
    /\ found = None

AppIdle ==
    /\ input_mode = "none"
    /\ url = <<>>
    /\ player_name = <<>>
    /\ appPc = "off"
    /\ final_url = None
    /\ page = "none"
    /\ shown = <<>>
    /\ errors = 0
    /\ lookups = 0
    /\ fetches = 0

LocInit ==
    /\ \E n \in 0..MaxElems : soup \in [1..n -> Elements]
    /\ locPc = "start"
    /\ table = None
    /\ RowIdle
    /\ ParseIdle
    /\ PipeIdle
    /\ LookIdle
    /\ AppIdle

\* scrape_player_game_log, lines 99-104: a table, or ValueError
LocateTable ==
    /\ locPc = "start"
    /\ table' = _find_latest_season_game_log_table(soup)
    /\ table' # None
    /\ locPc' = "located"
    /\ UNCHANGED <<soup, rowVars, parseVars, pipeVars, lookVars, appVars>>

LocateRaises ==
    /\ locPc = "start"
    /\ _find_latest_season_game_log_table(soup) = None
    /\ locPc' = "raised"
    /\ UNCHANGED <<soup, table, rowVars, parseVars, pipeVars, lookVars, appVars>>

LocNext == LocateTable \/ LocateRaises

SpecLocator == LocInit /\ [][LocNext]_vars

(***************************************************************************)
(* Row normaliser: scrape_player_game_log, lines 106-127                   *)
(***************************************************************************)
\* The cell counts met on a page: a spacer row of one cell, and rows of 2, 3
\* and 5 cells.  A row is either blank (every cell the empty text) or
\* carries in every cell the digit of its position in the table, which
\* tells the rows of one width apart.
Widths == {1, 2, 3, 5}

PosText(i) ==
    CASE i = 1 -> <<"1">> [] i = 2 -> <<"2">> [] i = 3 -> <<"3">>
      [] i = 4 -> <<"4">> [] i = 5 -> <<"5">> [] i = 6 -> <<"6">>
      [] OTHER -> <<"7">>

TrTable(w, b) ==
    [i \in 1..Len(w) |-> [c \in 1..w[i] |-> IF b[i] THEN <<>> ELSE PosText(i)]]

\* rows that keeps a row only when more than one of its cells has text
RECURSIVE ParsedRowsNonEmpty(_)
ParsedRowsNonEmpty(t) ==
    IF t = <<>> THEN <<>>
    ELSE IF Cardinality({ c \in 1..Len(Head(t)) : Head(t)[c] # <<>> }) <= 1
         THEN ParsedRowsNonEmpty(Tail(t))
         ELSE <<Head(t)>> \o ParsedRowsNonEmpty(Tail(t))

\* rows: the rows of more than one cell, in table order
RECURSIVE ParsedRows(_)
ParsedRows(t) ==
    IF t = <<>> THEN <<>>
    ELSE IF Len(Head(t)) <= 1 THEN ParsedRows(Tail(t))
         ELSE <<Head(t)>> \o ParsedRows(Tail(t))

\* the most frequent cell count (the smallest such, of several)
ColCountModal(rows) ==
    LET n(w) == Cardinality({ i \in 1..Len(rows) : Len(rows[i]) = w })
        ws   == { Len(rows[i]) : i \in 1..Len(rows) }
    IN  CHOOSE w \in ws : \A v \in ws : n(v) < n(w) \/ (n(v) = n(w) /\ w <= v)

\* col_count = max(len(r) for r in rows)
ColCount(rows) ==
    LET ws == { Len(rows[i]) : i \in 1..Len(rows) }
    IN  CHOOSE w \in ws : \A v \in ws : v <= w

\* rows_same_len = [r for r in rows if len(r) == col_count]
RECURSIVE RowsOfLen(_, _)
RowsOfLen(rows, n) ==
    IF rows = <<>> THEN <<>>
    ELSE IF Len(Head(rows)) = n THEN <<Head(rows)>> \o RowsOfLen(Tail(rows), n)
         ELSE RowsOfLen(Tail(rows), n)

RowInit ==
    /\ \E n \in 0..MaxRows :
          \E w \in [1..n -> Widths], b \in [1..n -> BOOLEAN] : trs = TrTable(w, b)
    /\ rowPc = "start"
    /\ header = <<>>
    /\ data_rows = <<>>
    /\ LocIdle
    /\ ParseIdle
    /\ PipeIdle
    /\ LookIdle
    /\ AppIdle

\* pd.DataFrame(data_rows, columns=header)
FrameRows ==
    /\ rowPc = "start"
    /\ LET rows == ParsedRows(trs)
       IN  /\ rows # <<>>
           /\ LET rows_same_len == RowsOfLen(rows, ColCount(rows))
              IN  /\ rows_same_len # <<>>
                  /\ header' = rows_same_len[1]
                  /\ data_rows' = Tail(rows_same_len)
    /\ rowPc' = "framed"
    /\ UNCHANGED <<trs, locVars, parseVars, pipeVars, lookVars, appVars>>

\* ValueError("No data rows found in selected game-log table.")
NoDataRows ==
    /\ rowPc = "start"
    /\ ParsedRows(trs) = <<>>
    /\ rowPc' = "raised"
    /\ UNCHANGED <<trs, header, data_rows, locVars, parseVars, pipeVars, lookVars, appVars>>

RowNext == FrameRows \/ NoDataRows

SpecRows == RowInit /\ [][RowNext]_vars

(***************************************************************************)
(* Shooting-split parser: split_made_attempts                              *)
(***************************************************************************)
\* The cells a shooting column is drawn from: None is a missing value.
CellTexts ==
    { <<"7", "-", "1", "3">>, <<"0", "-", "0">>, <<"7">>, <<>>, <<"7", "-">>,
      <<"-", "5">>, <<"x", "-", "5">>, <<"7", "-", "x">>, <<"x">>,
      <<"7", "-", "-", "3">>, <<"7", "-", "1", "-", "3">> }

Cells == { None } \cup { Some(t) : t \in CellTexts }

AllDigits(s) == s # <<>> /\ \A i \in 1..Len(s) : s[i] \in Digits

\* pd.to_numeric(errors="coerce") of one cell: an optionally signed run of
\* digits is that integer; any other text here, and None, is NaN (None)
ToNumeric(cell) ==
    IF cell = None THEN None
    ELSE LET s == cell[1]
         IN  IF AllDigits(s) THEN Some(DecVal(s))
             ELSE IF s # <<>> /\ Head(s) = "-" /\ AllDigits(Tail(s))
                  THEN Some(0 - DecVal(Tail(s)))
                  ELSE None

\* .fillna(0).astype(int)
FillZero(x) == IF x = None THEN 0 ELSE x[1]

CoerceInt(cell) == FillZero(ToNumeric(cell))

\* str.split("-", n=1): the text cut at its first hyphen, or the text alone
SplitFirst(s) ==
    LET hy == { i \in 1..Len(s) : s[i] = "-" }
    IN  IF hy = {} THEN <<s>>
        ELSE LET h == CHOOSE i \in hy : \A j \in hy : i <= j
             IN  <<SubSeq(s, 1, h - 1), SubSeq(s, h + 1, Len(s))>>

\* series.fillna("0-0")
FillNa(col) ==
    [i \in 1..Len(col) |-> IF col[i] = None THEN <<"0", "-", "0">> ELSE col[i][1]]

\* .str.split("-", n=1, expand=True): one list of parts per row; the frame
\* has as many columns as the longest list, none for an empty series
SplitRows(col) == [i \in 1..Len(col) |-> SplitFirst(FillNa(col)[i])]

ExpandedColumns(col) ==
    LET parts == SplitRows(col)
        lens  == { Len(parts[i]) : i \in 1..Len(parts) }
    IN  IF lens = {} THEN 0 ELSE CHOOSE n \in lens : \A m \in lens : m <= n

\* parts[k]: the k-th column of the expanded frame, None where a row is short
PartsColumn(col, k) ==
    LET parts == SplitRows(col)
    IN  [i \in 1..Len(col) |-> IF Len(parts[i]) >= k THEN Some(parts[i][k]) ELSE None]

\* parts[0] and parts[1] raise KeyError when the frame lacks the column
SplitRaises(col) == ExpandedColumns(col) < 2

SplitMade(col) == [i \in 1..Len(col) |-> CoerceInt(PartsColumn(col, 1)[i])]

SplitAtt(col) == [i \in 1..Len(col) |-> CoerceInt(PartsColumn(col, 2)[i])]

ParseInit ==
    /\ \E n \in 0..MaxCells : series \in [1..n -> Cells]
    /\ parsePc = "start"
    /\ made = <<>>
    /\ att = <<>>
    /\ LocIdle
    /\ RowIdle
    /\ PipeIdle
    /\ LookIdle
    /\ AppIdle

split_made_attempts ==
    /\ parsePc = "start"
    /\ ~SplitRaises(series)
    /\ made' = SplitMade(series)
    /\ att' = SplitAtt(series)
    /\ parsePc' = "done"
    /\ UNCHANGED <<series, locVars, rowVars, pipeVars, lookVars, appVars>>

\* KeyError from parts[0] or parts[1]
split_made_attempts_raises ==
    /\ parsePc = "start"
    /\ SplitRaises(series)
    /\ parsePc' = "raised"
    /\ UNCHANGED <<series, made, att, locVars, rowVars, pipeVars, lookVars, appVars>>

ParseNext == split_made_attempts \/ split_made_attempts_raises

SpecParse == ParseInit /\ [][ParseNext]_vars

(***************************************************************************)
(* Floating-point values.  A finite value is the exact fraction n/d with   *)
(* d > 0 (no rounding is modelled); NaN and the infinities are kinds of    *)
(* their own, as numpy produces them.                                      *)
(***************************************************************************)
Abs(x) == IF x < 0 THEN 0 - x ELSE x

RECURSIVE Gcd(_, _)
Gcd(a, b) == IF b = 0 THEN a ELSE Gcd(b, a % b)

\* the fraction n/d (d # 0) in lowest terms with a positive denominator
Num(n, d) ==
    LET g == Gcd(Abs(n), Abs(d))
        s == IF d < 0 THEN 0 - 1 ELSE 1
    IN  [k |-> "num", n |-> s * (n \div g), d |-> s * (d \div g)]

NaN == [k |-> "nan", n |-> 0, d |-> 1]

PosInf == [k |-> "inf", n |-> 1, d |-> 1]

NegInf == [k |-> "inf", n |-> 0 - 1, d |-> 1]

IsNum(x) == x.k = "num"

\* equality of two finite values
SameNum(x, y) == IsNum(x) /\ IsNum(y) /\ x.n * y.d = y.n * x.d

FAdd(x, y) ==
    IF ~IsNum(x) \/ ~IsNum(y) THEN NaN
    ELSE Num(x.n * y.d + y.n * x.d, x.d * y.d)

FMulInt(x, c) == IF IsNum(x) THEN Num(x.n * c, x.d) ELSE x

\* numpy division of finite values: x/0 is an infinity, 0/0 is NaN
FDiv(x, y) ==
    IF ~IsNum(x) \/ ~IsNum(y) THEN NaN
    ELSE IF y.n = 0
         THEN IF x.n = 0 THEN NaN ELSE IF x.n > 0 THEN PosInf ELSE NegInf
         ELSE Num(x.n * y.d, x.d * y.n)

RECURSIVE SumInts(_)
SumInts(xs) == IF xs = <<>> THEN 0 ELSE Head(xs) + SumInts(Tail(xs))

RECURSIVE SumNums(_)
SumNums(xs) == IF xs = <<>> THEN Num(0, 1) ELSE FAdd(Head(xs), SumNums(Tail(xs)))

RECURSIVE DropNaN(_)
DropNaN(xs) ==
    IF xs = <<>> THEN <<>>
    ELSE IF Head(xs).k = "nan" THEN DropNaN(Tail(xs))
         ELSE <<Head(xs)>> \o DropNaN(Tail(xs))

\* Series.mean(): missing values are skipped; NaN when nothing is left
Mean(xs) ==
    LET kept == DropNaN(xs)
    IN  IF kept = <<>> THEN NaN ELSE FDiv(SumNums(kept), Num(Len(kept), 1))

\* a column of a frame; the derived metrics are floats, the others integers
FloatColumns == {"efg", "ts", "game_score", "pts_per_36", "fga_per_36"}

Col(d, c) == [i \in 1..Len(d) |-> d[i][c]]

FloatCol(d, c) ==
    [i \in 1..Len(d) |-> IF c \in FloatColumns THEN d[i][c] ELSE Num(d[i][c], 1)]

(***************************************************************************)
(* The scraped frame.  Every game takes its shooting cells from Shooting   *)
(* and its other cells from Context; a page has either the RO and RD       *)
(* columns or the combined RT column.                                      *)
(***************************************************************************)
Txt(a, b) == <<a, "-", b>>

Shooting ==
    { [fg2 |-> Txt("1", "2"), fg3 |-> Txt("1", "1"), ft |-> Txt("1", "2")],
      [fg2 |-> Txt("3", "4"), fg3 |-> Txt("0", "2"), ft |-> Txt("0", "0")],
      [fg2 |-> Txt("0", "0"), fg3 |-> Txt("0", "0"), ft |-> Txt("0", "0")],
      [fg2 |-> Txt("0", "0"), fg3 |-> Txt("0", "0"), ft |-> Txt("1", "2")],
      [fg2 |-> <<"0", "-", "-", "1">>, fg3 |-> Txt("0", "0"), ft |-> Txt("0", "0")] }

Context ==
    { [res |-> <<"5", "0", "-", "4", "0">>, opp |-> <<"B">>, min |-> <<"3", "0">>,
       pts |-> <<"3">>, ro |-> <<"1">>, rd |-> <<"2">>, rt |-> <<"3">>, as |-> <<"2">>,
       st |-> <<"1">>, bs |-> <<"0">>, to |-> <<"1">>, pf |-> <<"2">>],
      [res |-> <<"4", "0", "-", "5", "0">>, opp |-> <<"C">>, min |-> <<"1", "0">>,
       pts |-> <<"3">>, ro |-> <<"0">>, rd |-> <<"1">>, rt |-> <<"1">>, as |-> <<"1">>,
       st |-> <<"0">>, bs |-> <<"1">>, to |-> <<"0">>, pf |-> <<"1">>],
      [res |-> <<"5", "0", "-", "4", "0">>, opp |-> <<"C">>, min |-> <<"0">>,
       pts |-> <<"0">>, ro |-> <<>>, rd |-> <<"x">>, rt |-> <<"x">>, as |-> <<"0">>,
       st |-> <<"0">>, bs |-> <<"0">>, to |-> <<"0">>, pf |-> <<"0">>],
      [res |-> <<"4", "0", "-", "5", "0">>, opp |-> <<"B">>, min |-> <<"3", "0">>,
       pts |-> <<"1">>, ro |-> <<"2">>, rd |-> <<"0">>, rt |-> <<"2">>, as |-> <<"0">>,
       st |-> <<"1">>, bs |-> <<"0">>, to |-> <<"2">>, pf |-> <<"3">>] }

CommonColumns ==
    {"Result", "Against Team", "MIN", "PTS", "2FGP", "3FGP", "FT", "AS", "ST", "BS", "TO", "PF"}

ColumnShapes == { CommonColumns \cup {"RO", "RD"}, CommonColumns \cup {"RT"} }

RawRow(cols, s, c) ==
    LET all == ("Result" :> c.res) @@ ("Against Team" :> c.opp) @@ ("MIN" :> c.min)
               @@ ("PTS" :> c.pts) @@ ("2FGP" :> s.fg2) @@ ("3FGP" :> s.fg3)
               @@ ("FT" :> s.ft) @@ ("AS" :> c.as) @@ ("ST" :> c.st) @@ ("BS" :> c.bs)
               @@ ("TO" :> c.to) @@ ("PF" :> c.pf) @@ ("RO" :> c.ro) @@ ("RD" :> c.rd)
               @@ ("RT" :> c.rt)
    IN  [name \in cols |-> all[name]]

(***************************************************************************)
(* add_parsed_columns                                                      *)
(***************************************************************************)
\* the column as split_made_attempts receives it
CellCol(d, c) == [i \in 1..Len(d) |-> Some(d[i][c])]

NumericCols == {"MIN", "PTS", "RO", "RD", "AS", "PF", "BS", "ST", "TO", "RNK"}

\* KeyError: a column the function reads is missing, or a split frame lacks
\* the column that is indexed
AddParsedRaises(cols, d) ==
    \/ ~({"2FGP", "3FGP", "FT", "Result"} \subseteq cols)
    \/ \E c \in {"2FGP", "3FGP", "FT", "Result"} : SplitRaises(CellCol(d, c))
    \/ "RT" \notin cols /\ ~({"RO", "RD"} \subseteq cols)

Reb(cols, row) ==
    IF "RT" \in cols THEN CoerceInt(Some(row["RT"]))
    ELSE CoerceInt(Some(row["RO"])) + CoerceInt(Some(row["RD"]))

AddParsedRow(cols, d, i) ==
    LET two   == <<SplitMade(CellCol(d, "2FGP"))[i], SplitAtt(CellCol(d, "2FGP"))[i]>>
        three == <<SplitMade(CellCol(d, "3FGP"))[i], SplitAtt(CellCol(d, "3FGP"))[i]>>
        ft    == <<SplitMade(CellCol(d, "FT"))[i], SplitAtt(CellCol(d, "FT"))[i]>>
        team  == SplitMade(CellCol(d, "Result"))[i]
        opp   == SplitAtt(CellCol(d, "Result"))[i]
        nums  == [c \in cols \cap NumericCols |-> CoerceInt(Some(d[i][c]))]
    IN  ("two_made" :> two[1]) @@ ("two_att" :> two[2])
        @@ ("three_made" :> three[1]) @@ ("three_att" :> three[2])
        @@ ("ft_made" :> ft[1]) @@ ("ft_att" :> ft[2])
        @@ ("fgm" :> two[1] + three[1]) @@ ("fga" :> two[2] + three[2])
        @@ ("team_score" :> team) @@ ("opp_score" :> opp)
        @@ ("margin" :> team - opp) @@ ("win" :> (team - opp > 0))
        @@ ("reb" :> Reb(cols, d[i]))
        @@ nums @@ d[i]

ParsedColumns ==
    {"two_made", "two_att", "three_made", "three_att", "ft_made", "ft_att", "fgm", "fga",
     "team_score", "opp_score", "margin", "win", "reb"}

(***************************************************************************)
(* add_game_advanced_metrics                                               *)
(***************************************************************************)
\* KeyError: game_score reads RO and RD, whatever the page's rebound columns
MetricsRaises(cols) ==
    ~({"fga", "fgm", "three_made", "ft_att", "ft_made", "PTS", "MIN",
       "RO", "RD", "ST", "AS", "BS", "PF", "TO"} \subseteq cols)

\* a ratio that is 0 where its denominator is not positive
ZeroUnless(cond, x) == IF cond THEN x ELSE Num(0, 1)

\* np.where(cond, x, np.nan)
NanUnless(cond, x) == IF cond THEN x ELSE NaN

\* (fgm + 0.5 * three_made) / fga
GameEfg(row) ==
    NanUnless(row["fga"] > 0, Num(2 * row["fgm"] + row["three_made"], 2 * row["fga"]))

\* PTS / (2 * (fga + 0.44 * ft_att))
GameTs(row) ==
    NanUnless(100 * row["fga"] + 44 * row["ft_att"] > 0,
              Num(100 * row["PTS"], 2 * (100 * row["fga"] + 44 * row["ft_att"])))

GameScore(row) ==
    Num(10 * row["PTS"] + 4 * row["fgm"] - 7 * row["fga"]
          - 4 * (row["ft_att"] - row["ft_made"]) + 7 * row["RO"] + 3 * row["RD"]
          + 10 * row["ST"] + 7 * row["AS"] + 7 * row["BS"] - 4 * row["PF"]
          - 10 * row["TO"], 10)

Per36(row, c) == NanUnless(row["MIN"] > 0, Num(36 * row[c], row["MIN"]))

AddMetricsRow(row) ==
    ("efg" :> GameEfg(row)) @@ ("ts" :> GameTs(row)) @@ ("game_score" :> GameScore(row))
    @@ ("pts_per_36" :> Per36(row, "PTS")) @@ ("fga_per_36" :> Per36(row, "fga")) @@ row

(***************************************************************************)
(* summarize_overall and summarize_splits                                  *)
(***************************************************************************)
Stats == {"PTS", "reb", "AS", "ST", "BS", "TO", "PF"}

SplitStats == {"PTS", "reb", "AS", "ST", "BS", "TO", "ts", "efg", "game_score"}

\* the season rate as the mean of the games' own per-36 values
SeasonPer36OfGames(d, c) ==
    Mean([i \in 1..Len(d) |-> NanUnless(d[i]["MIN"] > 0, Num(36 * d[i][c], d[i]["MIN"]))])

\* per_game_stats / df["MIN"].mean() * 36
SeasonPer36(d, c) == FMulInt(FDiv(Mean(FloatCol(d, c)), Mean(FloatCol(d, "MIN"))), 36)

\* the season percentage as the mean of the games' percentages
SeasonEfgOfGames(d) == Mean(FloatCol(d, "efg"))

SeasonEfg(d) ==
    LET FGM   == SumInts(Col(d, "two_made")) + SumInts(Col(d, "three_made"))
        FGA   == SumInts(Col(d, "two_att")) + SumInts(Col(d, "three_att"))
        made3 == SumInts(Col(d, "three_made"))
    IN  IF FGA > 0 THEN Num(2 * FGM + made3, 2 * FGA) ELSE NaN

SeasonTs(d) ==
    LET FGA   == SumInts(Col(d, "two_att")) + SumInts(Col(d, "three_att"))
        FTA   == SumInts(Col(d, "ft_att"))
        denom == 100 * FGA + 44 * FTA
    IN  IF denom > 0 THEN Num(100 * SumInts(Col(d, "PTS")), 2 * denom) ELSE NaN

\* the dictionary `advanced`; shooting_totals enters through efg and ts
SummarizeOverall(d) ==
    [games |-> Len(d),
     total_minutes |-> SumInts(Col(d, "MIN")),
     per_game |-> [c \in Stats |-> Mean(FloatCol(d, c))],
     per_36 |-> IF Len(d) > 0 THEN [c \in Stats |-> SeasonPer36(d, c)] ELSE <<>>,
     totals |-> [c \in Stats |-> SumInts(Col(d, c))],
     efg |-> SeasonEfg(d),
     ts |-> SeasonTs(d),
     avg_game_score |-> Mean(FloatCol(d, "game_score"))]

\* the rows of one group, in frame order
RECURSIVE RowsWhere(_, _, _)
RowsWhere(d, c, key) ==
    IF d = <<>> THEN <<>>
    ELSE IF Head(d)[c] = key THEN <<Head(d)>> \o RowsWhere(Tail(d), c, key)
         ELSE RowsWhere(Tail(d), c, key)

\* df.groupby(c)[SplitStats].mean()
GroupMeans(d, c) ==
    [key \in { d[i][c] : i \in 1..Len(d) } |->
        [stat \in SplitStats |-> Mean(FloatCol(RowsWhere(d, c, key), stat))]]

\* the two group tables; the two correlation coefficients are not represented
SummarizeSplits(d) ==
    [wins_vs_losses |-> GroupMeans(d, "win"), by_opponent |-> GroupMeans(d, "Against Team")]

\* A frame of at least one game (on a frame without rows the three splits of
\* add_parsed_columns raise as split_made_attempts does on an empty column).
PipeInit ==
    /\ columns \in ColumnShapes
    /\ \E n \in 1..MaxGames :
          \E s \in [1..n -> Shooting], c \in [1..n -> Context] :
              df = [i \in 1..n |-> RawRow(columns, s[i], c[i])]
    /\ pipePc = "raw"
    /\ overall = <<>>
    /\ splits = <<>>
    /\ LocIdle
    /\ RowIdle
    /\ ParseIdle
    /\ LookIdle
    /\ AppIdle

add_parsed_columns ==
    /\ pipePc = "raw"
    /\ IF AddParsedRaises(columns, df)
       THEN pipePc' = "raised" /\ UNCHANGED <<columns, df>>
       ELSE /\ df' = [i \in 1..Len(df) |-> AddParsedRow(columns, df, i)]
            /\ columns' = columns \cup ParsedColumns
            /\ pipePc' = "parsed"
    /\ UNCHANGED <<overall, splits, locVars, rowVars, parseVars, lookVars, appVars>>

add_game_advanced_metrics ==
    /\ pipePc = "parsed"
    /\ IF MetricsRaises(columns)
       THEN pipePc' = "raised" /\ UNCHANGED <<columns, df>>
       ELSE /\ df' = [i \in 1..Len(df) |-> AddMetricsRow(df[i])]
            /\ columns' = columns \cup FloatColumns
            /\ pipePc' = "metrics"
    /\ UNCHANGED <<overall, splits, locVars, rowVars, parseVars, lookVars, appVars>>

summarize_overall ==
    /\ pipePc = "metrics"
    /\ overall' = SummarizeOverall(df)
    /\ pipePc' = "overall"
    /\ UNCHANGED <<columns, df, splits, locVars, rowVars, parseVars, lookVars, appVars>>

summarize_splits ==
    /\ pipePc = "overall"
    /\ splits' = SummarizeSplits(df)
    /\ pipePc' = "done"
    /\ UNCHANGED <<columns, df, overall, locVars, rowVars, parseVars, lookVars, appVars>>

PipeNext ==
    \/ add_parsed_columns
    \/ add_game_advanced_metrics
    \/ summarize_overall
    \/ summarize_splits

SpecPipeline == PipeInit /\ [][PipeNext]_vars

(***************************************************************************)
(* Name lookup: find_usbasket_player_url_by_name                           *)
(***************************************************************************)
\* A URL is a sequence of pieces: "P" stands for the text
\* "basketball.usbasket.com/player/", "x" for any other text without "?"
\* and "#", and "?" and "#" for themselves.
UrlPieces == {"P", "x", "?", "#"}

NameChars == {" ", "a"}

\* what urlopen does: raises, or answers with the URL it was redirected to
Exceptions == {"HTTPError", "URLError", "timeout", "other"}

Responses(n) ==
    [kind : {"error"}, exc : Exceptions, url : { <<>> }]
      \cup [kind : {"ok"}, exc : {"none"}, url : UNION { [1..m -> UrlPieces] : m \in 0..n }]

NoResponse == [kind |-> "none", exc |-> "none", url |-> <<>>]

\* s.split(ch, 1)[0]
BeforeFirst(s, ch) ==
    LET at == { i \in 1..Len(s) : s[i] = ch }
    IN  IF at = {} THEN s
        ELSE SubSeq(s, 1, (CHOOSE i \in at : \A j \in at : i <= j) - 1)

\* only the urllib errors are caught
CaughtUrlErrorsOnly(exc) == exc \in {"HTTPError", "URLError"}

\* except (HTTPError, URLError) ... except Exception: every exception is caught
Caught(exc) == exc \in {"HTTPError", "URLError"} \/ exc \in Exceptions

\* "basketball.usbasket.com/player/" in final_url
IsPlayerUrl(u) == \E i \in 1..Len(u) : u[i] = "P"

\* the value returned once the request has been answered
LookupReturn(resp) ==
    IF resp.kind = "error" THEN None
    ELSE IF IsPlayerUrl(resp.url)
         THEN Some(BeforeFirst(BeforeFirst(resp.url, "?"), "#"))
         ELSE None

LookInit ==
    /\ \E n \in 0..MaxName : lookName \in [1..n -> NameChars]
    /\ lookPc = "start"
    /\ posted = <<>>
    /\ response = NoResponse
    /\ found = None
    /\ LocIdle
    /\ RowIdle
    /\ ParseIdle
    /\ PipeIdle
    /\ AppIdle

\* name.strip() is empty: None, and nothing is sent
LookupBlank ==
    /\ lookPc = "start"
    /\ Strip(lookName) = <<>>
    /\ found' = None
    /\ lookPc' = "returned"
    /\ UNCHANGED <<lookName, posted, response>>
    /\ UNCHANGED <<locVars, rowVars, parseVars, pipeVars, appVars>>

\* the POST raises
LookupFails ==
    /\ lookPc = "start"
    /\ Strip(lookName) # <<>>
    /\ \E resp \in Responses(MaxUrl) :
          /\ resp.kind = "error"
          /\ response' = resp
          /\ posted' = Append(posted, Strip(lookName))
          /\ IF Caught(resp.exc)
             THEN found' = None /\ lookPc' = "returned"
             ELSE found' = found /\ lookPc' = "raised"
    /\ UNCHANGED lookName
    /\ UNCHANGED <<locVars, rowVars, parseVars, pipeVars, appVars>>

\* the POST is answered, after any redirects
LookupAnswered ==
    /\ lookPc = "start"
    /\ Strip(lookName) # <<>>
    /\ \E resp \in Responses(MaxUrl) :
          /\ resp.kind = "ok"
          /\ response' = resp
          /\ posted' = Append(posted, Strip(lookName))
          /\ found' = LookupReturn(resp)
    /\ lookPc' = "returned"
    /\ UNCHANGED lookName
    /\ UNCHANGED <<locVars, rowVars, parseVars, pipeVars, appVars>>

LookNext == LookupBlank \/ LookupFails \/ LookupAnswered

SpecLookup == LookInit /\ [][LookNext]_vars

(***************************************************************************)
(* The "Analyze player" handler of app.py, one action per statement group  *)
(***************************************************************************)
TextChars == {" ", "u"}

\* What the fetched page is like, and the step that raises on it:
\*   fetch_error      url_get_contents raises                      (scrape)
\*   no_table         no game-log table: ValueError                (scrape)
\*   no_rows          no row of more than one cell: ValueError     (scrape)
\*   no_rebounds      none of RT, RO, RD: KeyError in add_parsed_columns
\*                    (derive; a page with RT only raises in the same step)
\*   against_team     the opponent header is spelt "Against team":
\*                    KeyError in groupby("Against Team")          (summarize)
\*   game_log         nothing raises
Pages == {"fetch_error", "no_table", "no_rows", "no_rebounds", "against_team", "game_log"}

FailingStep(p) ==
    CASE p \in {"fetch_error", "no_table", "no_rows"} -> "scrape"
      [] p = "no_rebounds" -> "derive"
      [] p = "against_team" -> "summarize"
      [] OTHER -> "none"

\* an exception that is swallowed without a message
ExceptSilently(n) == n

\* except Exception as e: st.error(...)
ExceptError(n) == n + 1

AppInit ==
    /\ input_mode \in {"Player URL", "Player name"}
    /\ \E n \in 0..MaxText :
          \E t \in [1..n -> TextChars] :
              IF input_mode = "Player URL"
              THEN url = t /\ player_name = <<>>
              ELSE player_name = t /\ url = <<>>
    /\ appPc = "pressed"
    /\ final_url = None
    /\ page = "none"
    /\ shown = <<>>
    /\ errors = 0
    /\ lookups = 0
    /\ fetches = 0
    /\ LocIdle
    /\ RowIdle
    /\ ParseIdle
    /\ PipeIdle
    /\ LookIdle

AppOthers == UNCHANGED <<locVars, rowVars, parseVars, pipeVars, lookVars>>

\* lines 43-44
TakeUrl ==
    /\ appPc = "pressed"
    /\ input_mode = "Player URL"
    /\ final_url' = Some(Strip(url))
    /\ appPc' = "check_url"
    /\ UNCHANGED <<input_mode, url, player_name, page, shown, errors, lookups, fetches>>
    /\ AppOthers

\* lines 46-49
NameMissing ==
    /\ appPc = "pressed"
    /\ input_mode = "Player name"
    /\ Strip(player_name) = <<>>
    /\ errors' = errors + 1
    /\ appPc' = "stopped"
    /\ UNCHANGED <<input_mode, url, player_name, final_url, page, shown, lookups, fetches>>
    /\ AppOthers

\* lines 51-62
LookUpName ==
    /\ appPc = "pressed"
    /\ input_mode = "Player name"
    /\ Strip(player_name) # <<>>
    /\ lookups' = lookups + 1
    /\ \E resp \in Responses(MaxUrl) :
          LET got == LookupReturn(resp)
          IN  IF got # None /\ got[1] # <<>>
              THEN /\ shown' = Append(shown, "found_message")
                   /\ final_url' = got
                   /\ appPc' = "check_url"
                   /\ errors' = errors
              ELSE /\ errors' = errors + 1
                   /\ appPc' = "stopped"
                   /\ UNCHANGED <<shown, final_url>>
    /\ UNCHANGED <<input_mode, url, player_name, page, fetches>>
    /\ AppOthers

\* a test that lets an empty URL through
NotFinalUrlNoneOnly(f) == f = None

\* line 64: not final_url, true of None and of the empty string
NotFinalUrl(f) == f = None \/ f[1] = <<>>

\* lines 64-66
CheckUrl ==
    /\ appPc = "check_url"
    /\ IF NotFinalUrl(final_url)
       THEN errors' = errors + 1 /\ appPc' = "stopped"
       ELSE errors' = errors /\ appPc' = "scrape"
    /\ UNCHANGED <<input_mode, url, player_name, final_url, page, shown, lookups, fetches>>
    /\ AppOthers

\* line 71, and lines 178-179 when it raises
Scrape ==
    /\ appPc = "scrape"
    /\ fetches' = fetches + 1
    /\ \E p \in Pages :
          /\ page' = p
          /\ IF FailingStep(p) = "scrape"
             THEN errors' = ExceptError(errors) /\ appPc' = "failed"
             ELSE errors' = errors /\ appPc' = "show_raw"
    /\ UNCHANGED <<input_mode, url, player_name, final_url, shown, lookups>>
    /\ AppOthers

\* lines 73-74
ShowRaw ==
    /\ appPc = "show_raw"
    /\ shown' = Append(shown, "raw_table")
    /\ appPc' = "derive"
    /\ UNCHANGED <<input_mode, url, player_name, final_url, page, errors, lookups, fetches>>
    /\ AppOthers

\* lines 76-78, and lines 178-179 when one of them raises
Derive ==
    /\ appPc = "derive"
    /\ IF FailingStep(page) = "derive"
       THEN errors' = ExceptError(errors) /\ appPc' = "failed"
       ELSE errors' = errors /\ appPc' = "show_metrics"
    /\ UNCHANGED <<input_mode, url, player_name, final_url, page, shown, lookups, fetches>>
    /\ AppOthers

\* lines 80-107
ShowMetrics ==
    /\ appPc = "show_metrics"
    /\ shown' = Append(shown, "metrics_table")
    /\ appPc' = "summarize"
    /\ UNCHANGED <<input_mode, url, player_name, final_url, page, errors, lookups, fetches>>
    /\ AppOthers

\* lines 109-110, and lines 178-179 when one of them raises
Summarize ==
    /\ appPc = "summarize"
    /\ IF FailingStep(page) = "summarize"
       THEN errors' = ExceptError(errors) /\ appPc' = "failed"
       ELSE errors' = errors /\ appPc' = "show_summary"
    /\ UNCHANGED <<input_mode, url, player_name, final_url, page, shown, lookups, fetches>>
    /\ AppOthers

\* lines 112-158
ShowSummary ==
    /\ appPc = "show_summary"
    /\ shown' = Append(shown, "summary")
    /\ appPc' = "render"
    /\ UNCHANGED <<input_mode, url, player_name, final_url, page, errors, lookups, fetches>>
    /\ AppOthers

\* lines 160-176
RenderDownloads ==
    /\ appPc = "render"
    /\ shown' = shown \o <<"download_html", "download_csv">>
    /\ appPc' = "done"
    /\ UNCHANGED <<input_mode, url, player_name, final_url, page, errors, lookups, fetches>>
    /\ AppOthers

AppNext ==
    \/ TakeUrl
    \/ NameMissing
    \/ LookUpName
    \/ CheckUrl
    \/ Scrape
    \/ ShowRaw
    \/ Derive
    \/ ShowMetrics
    \/ Summarize
    \/ ShowSummary
    \/ RenderDownloads

SpecApp == AppInit /\ [][AppNext]_vars

\* The handler is straight-line code run to its end by one script run; the
\* statements up to line 66 contain no loop and the lookup's urlopen has
\* timeout=10, so a step that is possible is eventually taken.
SpecAppLive == SpecApp /\ WF_vars(AppNext)

(***************************************************************************)
(* C1: whenever a table is located, it is a candidate of the highest       *)
(* season year, a candidate without a year ranks below every candidate     *)
(* with one, and every candidate before it in document order ranks         *)
(* strictly lower (the first of several with the highest year wins).       *)
(***************************************************************************)
RanksBelow(a, b) ==
    /\ b.year # None
    /\ (a.year = None \/ a.year[1] < b.year[1])

C1_LatestSeasonFirstInDocument ==
    locPc = "located" =>
        LET cs == Candidates(soup)
        IN  \E k \in 1..Len(cs) :
               /\ cs[k].tbl = table[1]
               /\ \A j \in 1..Len(cs) : ~RanksBelow(cs[k], cs[j])
               /\ \A j \in 1..(k - 1) : RanksBelow(cs[j], cs[k])

\* a located table that is the second of three candidates: one without a year
\* before it, and a later one with the same, highest, year
C1_Witness ==
    /\ locPc = "located"
    /\ LET cs == Candidates(soup)
       IN  /\ Len(cs) = 3
           /\ cs[1].year = None
           /\ cs[2].year # None
           /\ cs[3].year = cs[2].year
           /\ table = Some(cs[2].tbl)

(***************************************************************************)
(* C9: locating raises exactly when no my_Title table has a my_Headers row *)
(* whose cells hold, case-insensitively, date, against team and result;    *)
(* and a located table is always such a table.                             *)
(***************************************************************************)
HasCell(row, key) == \E c \in 1..Len(row) : Lower(Strip(row[c])) = key

LooksLikeGameLog(e) ==
    /\ e.tag = "table"
    /\ e.cls
    /\ \E r \in 1..Len(e.headers) :
          /\ HasCell(e.headers[r], kDate)
          /\ HasCell(e.headers[r], kAgainst)
          /\ HasCell(e.headers[r], kResult)

C9_TableNotFoundIffNoGameLog ==
    /\ locPc = "raised" => \A i \in 1..Len(soup) : ~LooksLikeGameLog(soup[i])
    /\ locPc = "located" => table # None /\ LooksLikeGameLog(soup[table[1]])
    /\ locPc \in {"start", "located", "raised"}

\* a game log of 2023 is located although a my_Title table without a result
\* column follows the 2024 heading
C9_Witness ==
    /\ locPc = "located"
    /\ YearBefore(soup, table[1]) = Some(2023)
    /\ \E i \in 1..Len(soup) :
          /\ soup[i].tag = "table"
          /\ soup[i].cls
          /\ soup[i].headers = << <<tDate, tTeam, tAgainst>> >>
          /\ YearBefore(soup, i) = Some(2024)

(***************************************************************************)
(* C2 as stated: the kept rows are exactly the rows of the modal (most     *)
(* frequent) cell count among the rows of more than one cell.              *)
(***************************************************************************)
CountOfWidth(w) == Cardinality({ i \in 1..Len(trs) : Len(trs[i]) > 1 /\ Len(trs[i]) = w })

IsModalWidth(w) == CountOfWidth(w) > 0 /\ \A v \in Widths : CountOfWidth(v) <= CountOfWidth(w)

\* the k-th row, in table order, among the rows whose index is in K
KthOf(K, k) == trs[CHOOSE i \in K : Cardinality({ j \in K : j <= i }) = k]

KeptAre(K) ==
    LET out == <<header>> \o data_rows
    IN  /\ Len(out) = Cardinality(K)
        /\ \A k \in 1..Len(out) : out[k] = KthOf(K, k)

C2_KeepsModalWidth ==
    rowPc = "framed" =>
        \E w \in Widths :
            /\ IsModalWidth(w)
            /\ KeptAre({ i \in 1..Len(trs) : Len(trs[i]) = w })

(***************************************************************************)
(* C2 amended: the kept rows are exactly the rows of the greatest cell     *)
(* count among the rows of more than one cell; the first of them is the    *)
(* header and the others are the data rows, in table order.                *)
(***************************************************************************)
IsWidestWidth(w) ==
    /\ w > 1
    /\ \E i \in 1..Len(trs) : Len(trs[i]) = w
    /\ \A i \in 1..Len(trs) : Len(trs[i]) <= w

C2_KeepsWidestRows ==
    rowPc = "framed" =>
        \E w \in Widths :
            /\ IsWidestWidth(w)
            /\ KeptAre({ i \in 1..Len(trs) : Len(trs[i]) = w })

\* cell counts [5, 3, 5, 5, 2]: rows 1, 3 and 4 are kept
C2_Witness ==
    /\ rowPc = "framed"
    /\ Len(trs) = 5
    /\ [i \in 1..5 |-> Len(trs[i])] = <<5, 3, 5, 5, 2>>
    /\ header = trs[1]
    /\ data_rows = <<trs[3], trs[4]>>

(***************************************************************************)
(* C3 as stated: split_made_attempts never raises; a cell "m-a" of two     *)
(* non-negative integers yields (m, a) and every other cell yields (0, 0). *)
(***************************************************************************)
HyphenAt(s, h) ==
    /\ s[h] = "-"
    /\ AllDigits(SubSeq(s, 1, h - 1))
    /\ AllDigits(SubSeq(s, h + 1, Len(s)))

IsMadeAttempted(cell) == cell # None /\ \E h \in 1..Len(cell[1]) : HyphenAt(cell[1], h)

ExpectedSplit(cell) ==
    IF IsMadeAttempted(cell)
    THEN LET h == CHOOSE i \in 1..Len(cell[1]) : HyphenAt(cell[1], i)
         IN  <<DecVal(SubSeq(cell[1], 1, h - 1)), DecVal(SubSeq(cell[1], h + 1, Len(cell[1])))>>
    ELSE <<0, 0>>

C3_NeverRaisesShapeOrZero ==
    /\ parsePc # "raised"
    /\ parsePc = "done" =>
          \A i \in 1..Len(series) : <<made[i], att[i]>> = ExpectedSplit(series[i])

(***************************************************************************)
(* Totals of a frame column, for the claims about the metrics.             *)
(***************************************************************************)
RECURSIVE TotalUpTo(_, _)
TotalUpTo(c, n) == IF n = 0 THEN 0 ELSE TotalUpTo(c, n - 1) + df[n][c]

Total(c) == TotalUpTo(c, Len(df))

RECURSIVE SumOfGames(_, _)
SumOfGames(S, c) ==
    IF S = {} THEN Num(0, 1)
    ELSE LET i == CHOOSE j \in S : TRUE
         IN  FAdd(df[i][c], SumOfGames(S \ {i}, c))

Derived == pipePc \in {"metrics", "overall", "done"}

Summarized == pipePc \in {"overall", "done"}

\* the mean of a group is the mean of the games of the group that have a value
MeanOverDefined(groups, by, c) ==
    \A key \in DOMAIN groups :
        LET S == { i \in 1..Len(df) : df[i][by] = key /\ df[i][c].k # "nan" }
        IN  IF S = {} THEN groups[key][c].k = "nan"
            ELSE SameNum(FMulInt(groups[key][c], Cardinality(S)), SumOfGames(S, c))

RatiosValued ==
    \A i \in 1..Len(df) :
        /\ IsNum(df[i]["efg"]) =>
              SameNum(df[i]["efg"], Num(2 * df[i]["fgm"] + df[i]["three_made"], 2 * df[i]["fga"]))
        /\ IsNum(df[i]["pts_per_36"]) =>
              SameNum(df[i]["pts_per_36"], Num(36 * df[i]["PTS"], df[i]["MIN"]))
        /\ \A c \in {"efg", "ts", "pts_per_36", "fga_per_36"} : df[i][c].k \in {"num", "nan"}

Per36AbsentIffNoMinutes ==
    \A i \in 1..Len(df) :
        /\ df[i]["pts_per_36"].k = "nan" <=> df[i]["MIN"] <= 0
        /\ df[i]["fga_per_36"].k = "nan" <=> df[i]["MIN"] <= 0

SplitsSkipAbsent ==
    pipePc = "done" =>
        \A c \in {"efg", "ts"} :
            /\ MeanOverDefined(splits.wins_vs_losses, "win", c)
            /\ MeanOverDefined(splits.by_opponent, "Against Team", c)

(***************************************************************************)
(* C4 as stated: efg is absent iff fga = 0, ts is absent iff               *)
(* fga + 0.44*ft_att = 0, the per-36 values are absent iff MIN <= 0, and   *)
(* the group means of efg and ts are taken over the defined values only.   *)
(***************************************************************************)
C4_AbsentIffDenominatorZero ==
    /\ Derived =>
          /\ \A i \in 1..Len(df) :
                /\ df[i]["efg"].k = "nan" <=> df[i]["fga"] = 0
                /\ df[i]["ts"].k = "nan" <=> 100 * df[i]["fga"] + 44 * df[i]["ft_att"] = 0
          /\ Per36AbsentIffNoMinutes
          /\ RatiosValued
    /\ SplitsSkipAbsent

(***************************************************************************)
(* C4 amended: efg is absent iff fga <= 0 and ts is absent iff             *)
(* fga + 0.44*ft_att <= 0 (a denominator that is not positive, which       *)
(* includes the negative attempts a cell such as "0--1" parses to); the    *)
(* per-36 values are absent iff MIN <= 0; an absent ratio is NaN, never a  *)
(* number; and the group means of efg and ts skip the absent values.       *)
(***************************************************************************)
C4_AbsentIffDenominatorNotPositive ==
    /\ Derived =>
          /\ \A i \in 1..Len(df) :
                /\ df[i]["efg"].k = "nan" <=> df[i]["fga"] <= 0
                /\ df[i]["ts"].k = "nan" <=> 100 * df[i]["fga"] + 44 * df[i]["ft_att"] <= 0
          /\ Per36AbsentIffNoMinutes
          /\ RatiosValued
    /\ SplitsSkipAbsent

\* two games of one win/loss group, one without field-goal attempts and one
\* with: the group's efg is the efg of the second
C4_Witness ==
    /\ pipePc = "done"
    /\ Len(df) = 2
    /\ df[1]["win"] = df[2]["win"]
    /\ df[1]["fga"] = 0
    /\ df[1]["efg"].k = "nan"
    /\ IsNum(df[2]["efg"])
    /\ df[2]["efg"].n # 0
    /\ SameNum(splits.wins_vs_losses[df[1]["win"]]["efg"], df[2]["efg"])

C6_SeasonPer36FromMeans ==
    (Summarized /\ Len(df) > 0) =>
        \A c \in Stats :
            LET r == overall.per_36[c]
            IN  IF Total("MIN") # 0
                THEN IsNum(r) /\ r.n * Total("MIN") = 36 * Total(c) * r.d
                ELSE ~IsNum(r)

\* two games of different minutes: the season rate of PTS is not the mean of
\* the two games' pts_per_36
C6_Witness ==
    /\ Summarized
    /\ Len(df) = 2
    /\ df[1]["MIN"] > 0
    /\ df[2]["MIN"] > 0
    /\ df[1]["MIN"] # df[2]["MIN"]
    /\ IsNum(overall.per_36["PTS"])
    /\ ~SameNum(overall.per_36["PTS"], Mean(<<df[1]["pts_per_36"], df[2]["pts_per_36"]>>))

(***************************************************************************)
(* C10 as stated: the per-game derivation never raises on a normalised     *)
(* table; on a page with RT and without RO and RD the rebound field is RT  *)
(* and every game gets a game_score.                                       *)
(***************************************************************************)
C10_DerivationNeverRaises ==
    /\ pipePc # "raised"
    /\ ("RT" \in columns /\ pipePc \in {"parsed", "metrics", "overall", "done"}) =>
          \A i \in 1..Len(df) : df[i]["reb"] = CoerceInt(Some(df[i]["RT"]))
    /\ Derived => \A i \in 1..Len(df) : "game_score" \in DOMAIN df[i]

(***************************************************************************)
(* C7: the lookup never raises; a name that is blank after trimming gives  *)
(* None and no request; a request that raises gives None; an answer whose  *)
(* final URL is no player URL gives None; any other answer gives the final *)
(* URL cut before its first "?" or "#".                                    *)
(***************************************************************************)
Blank(s) == \A i \in 1..Len(s) : s[i] = " "

CutOf(u, full) ==
    /\ Len(u) <= Len(full)
    /\ \A i \in 1..Len(u) : u[i] = full[i] /\ u[i] \notin {"?", "#"}
    /\ Len(u) < Len(full) => full[Len(u) + 1] \in {"?", "#"}

C7_LookupNeverRaises ==
    /\ lookPc # "raised"
    /\ lookPc = "returned" =>
          IF Blank(lookName) THEN found = None /\ posted = <<>>
          ELSE /\ Len(posted) = 1
               /\ IF response.kind = "error" THEN found = None
                  ELSE IF \A i \in 1..Len(response.url) : response.url[i] # "P"
                       THEN found = None
                       ELSE found # None /\ CutOf(found[1], response.url)

\* a player URL came back with a query string, which was cut off
C7_Witness ==
    /\ lookPc = "returned"
    /\ response.kind = "ok"
    /\ found # None
    /\ found[1] # <<>>
    /\ Len(found[1]) < Len(response.url)

(***************************************************************************)
(* C8 as stated: when a pipeline step fails, exactly one error message is  *)
(* displayed and no partial result (raw table, metrics table, summary,     *)
(* download) has been shown in the run.                                    *)
(***************************************************************************)
Results == {"raw_table", "metrics_table", "summary", "download_html", "download_csv"}

ShownResults == { shown[i] : i \in 1..Len(shown) } \cap Results

C8_OneErrorNoPartialResult ==
    appPc = "failed" => errors = 1 /\ ShownResults = {}

(***************************************************************************)
(* C8 amended: when a pipeline step fails, exactly one error message is    *)
(* displayed; nothing of the results has been shown when the scrape        *)
(* failed, but what was displayed before the failing step stays shown      *)
(* (the raw table when the derivation failed, the raw and the metrics      *)
(* table when the summaries failed), and nothing after it is shown.        *)
(***************************************************************************)
C8_OneErrorEarlierResultsStay ==
    appPc = "failed" =>
        /\ errors = 1
        /\ FailingStep(page) = "scrape" => ShownResults = {}
        /\ FailingStep(page) = "derive" => ShownResults = {"raw_table"}
        /\ FailingStep(page) = "summarize" => ShownResults = {"raw_table", "metrics_table"}
        /\ FailingStep(page) # "none"

\* the derivation failed on a page without rebound columns, after the raw table was shown
C8_Witness ==
    /\ appPc = "failed"
    /\ page = "no_rebounds"
    /\ errors = 1
    /\ "raw_table" \in ShownResults

(***************************************************************************)
(* C11: in every analysis run at most one name-lookup request and at most  *)
(* one page fetch are issued, and none is issued again after the run has   *)
(* stopped, failed or finished; a lookup is made before any page fetch; no *)
(* page is fetched when the name or the URL is empty after trimming, when  *)
(* the lookup returns absent, or when the resolved URL is empty: the run   *)
(* then ends with one error message and without any pipeline result.       *)
(***************************************************************************)
InputBlank ==
    IF input_mode = "Player URL" THEN Blank(url) ELSE Blank(player_name)

C11_State ==
    /\ lookups <= 1
    /\ fetches <= 1
    /\ (fetches = 1 => final_url # None /\ final_url[1] # <<>>)
    /\ (InputBlank =>
           /\ fetches = 0
           /\ appPc \in {"pressed", "check_url", "stopped"}
           /\ ShownResults = {})
    /\ (appPc = "stopped" =>
           /\ fetches = 0
           /\ errors = 1
           /\ ShownResults = {})

C11_Step ==
    /\ appPc \notin {"stopped", "failed", "done"}
    /\ (lookups' # lookups => fetches = 0 /\ fetches' = 0)
    /\ (lookups' # lookups /\ (final_url' = None \/ final_url'[1] = <<>>) =>
           /\ appPc' = "stopped"
           /\ errors' = errors + 1)
    /\ (fetches' # fetches => appPc = "scrape" /\ errors = 0)

C11_OneLookupThenOneFetch ==
    /\ []C11_State
    /\ [][C11_Step]_vars
    /\ ((appPc = "pressed" /\ InputBlank) ~> (appPc = "stopped"))

\* a run by name that looked the name up once, then fetched the page once
C11_Witness ==
    /\ input_mode = "Player name"
    /\ appPc = "done"
    /\ lookups = 1
    /\ fetches = 1
    /\ errors = 0

(***************************************************************************)
(* C12 as stated: a table row of one or fewer non-empty cells is never the *)
(* header or a data row (a full-width row of empty cells is not kept), and *)
(* the frame is refused only when every row is such a row.                 *)
(***************************************************************************)
NonEmptyCells(r) == Cardinality({ c \in 1..Len(r) : r[c] # <<>> })

C12_DropsRowsOfFewNonEmptyCells ==
    /\ rowPc = "framed" =>
          /\ NonEmptyCells(header) > 1
          /\ \A k \in 1..Len(data_rows) : NonEmptyCells(data_rows[k]) > 1
    /\ rowPc = "raised" =>
          \A i \in 1..Len(trs) : NonEmptyCells(trs[i]) <= 1

(***************************************************************************)
(* C12 amended: a table row of one or fewer cells, empty or not, is        *)
(* dropped before the width is selected and is never the header or a data  *)
(* row; the width is selected among the other rows, whatever their text    *)
(* (a full-width row of empty cells is kept); dropping rows is no error:   *)
(* the frame is refused only when no row has more than one cell.           *)
(***************************************************************************)
ManyCells == { i \in 1..Len(trs) : Len(trs[i]) > 1 }

C12_DropsRowsOfAtMostOneCell ==
    /\ rowPc = "framed" =>
          /\ ManyCells # {}
          /\ Len(header) > 1
          /\ \A k \in 1..Len(data_rows) : Len(data_rows[k]) > 1
          /\ KeptAre({ i \in ManyCells :
                         \A j \in ManyCells : Len(trs[j]) <= Len(trs[i]) })
    /\ rowPc = "raised" => ManyCells = {}

\* a one-cell row dropped, and a row of two empty cells kept as a data row
C12_Witness ==
    /\ rowPc = "framed"
    /\ Len(trs) = 3
    /\ Len(trs[1]) = 1
    /\ NonEmptyCells(trs[2]) = 2
    /\ trs[3] = << <<>>, <<>> >>
    /\ header = trs[2]
    /\ data_rows = <<trs[3]>>

====
